---- MODULE Spec2Model ----
(***************************************************************************)
(* Model of the 8086 disassembler of src/src/main.rs: parse_bin drives a   *)
(* cursor over an immutable byte buffer, classifies the leading byte(s)    *)
(* with as_opcode_enum and dispatches to one decoder per instruction       *)
(* format, appending one text line per decoded instruction.                *)
(*                                                                         *)
(* A text line is a sequence of string pieces, one per literal or          *)
(* placeholder of the format!() call that builds it; Text concatenates     *)
(* them into the string the program produces.  A panic (failed index,      *)
(* failed expect, panic!, arithmetic overflow in a debug build) ends the   *)
(* pass in status "aborted" and nothing is returned.                       *)
(***************************************************************************)
EXTENDS Integers, Sequences, FiniteSets, TLC

VARIABLES bin, cursor, asm, status, ret, report, last

vars == <<bin, cursor, asm, status, ret, report, last>>

(***************************************************************************)
(* Bounds: the buffers explored.  The first byte ranges over LeadBytes,    *)
(* the second over SecondBytes, every later byte over TailBytes; a byte of *)
(* any of the sets becomes a leading byte whenever an instruction boundary *)
(* falls on it.                                                            *)
(***************************************************************************)
MaxLen == 5

LeadBytes ==
    { \h00, \h03, \h04, \h05, \h2B, \h2C, \h2D, \h3B, \h3C, \h3D,
      \h80, \h81, \h83, \h88, \h8B, \h8C, \h8E,
      \hA0, \hA1, \hA2, \hA3, \hB1, \hBB, \hC6, \hC7, \hF4 }

SecondBytes ==
    { \h00, \h06, \h18, \h2F, \h3E, \h40, \h6E, \h82, \hBE,
      \hC0, \hD8, \hE2, \hE8, \hFE }

TailBytes == { \h00, \h01, \h80, \hE8 }

\* The buffers of length n.
Buffers(n) ==
    { [i \in 1..n |-> IF i = 1 THEN l ELSE IF i = 2 THEN s ELSE t[i]] :
        l \in LeadBytes, s \in SecondBytes, t \in [3..n -> TailBytes] }

(***************************************************************************)
(* Lookup tables.                                                          *)
(***************************************************************************)
BYTE_REGISTERS == <<"al", "cl", "dl", "bl", "ah", "ch", "dh", "bh">>
WORD_REGISTERS == <<"ax", "cx", "dx", "bx", "sp", "bp", "si", "di">>
REGISTER_ENCODINGS == <<BYTE_REGISTERS, WORD_REGISTERS>>

RM_ADDRESS_CALCULATION_ENCODINGS ==
    <<"[bx + si]", "[bx + di]", "[bp + si]", "[bp + di]",
      "[si]", "[di]", "[bp]", "[bx]">>

(***************************************************************************)
(* Primitive operations of the language and its standard library.          *)
(***************************************************************************)
\* bytes[i] on a Vec<u8>, i counted from 0: the byte, or a negative value
\* standing for the index-out-of-bounds panic.
At(bytes, i) == IF i < Len(bytes) THEN bytes[i + 1] ELSE 0 - 1

\* x >> n on an unsigned byte.
Shr(x, n) == x \div (2 ^ n)

\* u16::from_ne_bytes([lo, hi]) on the little-endian targets the program's
\* own tests assume (05 e8 03 decodes to 1000).
U16FromNeBytes(lo, hi) == lo + 256 * hi

\* i16::from_ne_bytes([lo, hi]): the same 16 bits read as two's complement.
I16FromNeBytes(lo, hi) ==
    LET u == lo + 256 * hi IN IF u >= 32768 THEN u - 65536 ELSE u

\* The cast left out: the byte kept unsigned.
AsI8Unsigned(b) == b

\* b as i8.
AsI8(b) == IF b >= 128 THEN b - 256 ELSE b

\* b.wrapping_neg() on a u8.
WrappingNeg(b) == (256 - b) % 256

\* The 8-bit displacement widened to i16: when bit 7 is set,
\* (b.wrapping_neg() as i16) * -1, otherwise b as i16.
SignExtend8(b) ==
    LET is_displacement_signed == (Shr(b, 7) % 2) = 1
    IN  IF is_displacement_signed THEN WrappingNeg(b) * (0 - 1) ELSE b

\* The digits in the wrong order, least significant first.
Bin8Reversed(b) == [k \in 1..8 |-> Shr(b, k - 1) % 2]

\* format!("{:0>8b}", b): the eight binary digits of b, most significant first.
Bin8(b) == [k \in 1..8 |-> Shr(b, 8 - k) % 2]

\* The build profiles: i16::abs(i16::MIN) panics when overflow checks are
\* compiled in (debug) and wraps to i16::MIN when they are not (release).
Profiles == { "debug", "release" }

\* Results of a decoder: the cursor it reached and the line it produced, or
\* the panic that ended it.
Ok(c, line) == [panic |-> FALSE, cursor |-> c, line |-> line, why |-> ""]
Panic(c, why) == [panic |-> TRUE, cursor |-> c, line |-> <<>>, why |-> why]

\* Results of computing the r/m operand inside a decoder.
RmOk(c, text) == [panic |-> FALSE, cursor |-> c, text |-> text, why |-> ""]
RmPanic(c, why) == [panic |-> TRUE, cursor |-> c, text |-> "", why |-> why]

IndexPanic == "index out of bounds"
OverflowPanic == "attempt to negate with overflow"

(***************************************************************************)
(* rm_address_calculation_displaced                                        *)
(***************************************************************************)
DisplacementSign(displacement) == IF displacement > 1 THEN "+" ELSE "-"

rm_address_calculation_displaced(rm_bits, displacement, profile) ==
    LET sign == DisplacementSign(displacement)
        overflow == displacement = 0 - 32768
        abs_displacement ==
            IF overflow THEN displacement
            ELSE IF displacement < 0 THEN 0 - displacement ELSE displacement
        base == <<"[bx + si ", "[bx + di ", "[bp + si ", "[bp + di ",
                  "[si ", "[di ", "[bp ", "[bx ">>[rm_bits + 1]
    IN  IF overflow /\ profile = "debug"
        THEN [panic |-> TRUE, text |-> ""]
        ELSE [panic |-> FALSE,
              text |-> base \o sign \o " " \o ToString(abs_displacement) \o "]"]

(***************************************************************************)
(* as_opcode_enum                                                          *)
(***************************************************************************)
as_opcode_enum(bytes) ==
    LET b0 == bytes[1]
        reg == Shr(bytes[2], 3) % 8
    IN  IF Shr(b0, 2) = \b100010 THEN "MovRegisterOrMemoryToOrFromRegister"
        ELSE IF Shr(b0, 1) = \b1100011 THEN "MovImmediateToRegisterOrMemory"
        ELSE IF Shr(b0, 4) = \b1011 THEN "MovImmediateToRegister"
        ELSE IF Shr(b0, 1) = \b1010000 THEN "MovMemoryToAccumulator"
        ELSE IF Shr(b0, 1) = \b1010001 THEN "MovAccumulatorToMemory"
        ELSE IF b0 = \b10001110 THEN "MovRegisterOrMemoryToSegmentRegister"
        ELSE IF b0 = \b10001100 THEN "MovSegmentRegisterToRegisterOrMemory"
        ELSE IF Shr(b0, 2) = \b000000 THEN "AddRegisterOrMemoryWithRegisterToEither"
        ELSE IF Shr(b0, 2) = \b100000 /\ reg = \b101
            THEN "SubImmediateToRegisterOrMemory"
        ELSE IF Shr(b0, 2) = \b100000 /\ reg = \b111
            THEN "CmpImmediateWithRegisterOrMemory"
        ELSE IF Shr(b0, 2) = \b100000 /\ reg = \b0
            THEN "AddImmediateToRegisterOrMemory"
        ELSE IF Shr(b0, 1) = \b0000010 THEN "AddImmediateToAccumulator"
        ELSE IF Shr(b0, 2) = \b001010 THEN "SubRegisterOrMemoryWithRegisterToEither"
        ELSE IF Shr(b0, 2) = \b100000 THEN "SubImmediateToRegisterOrMemory"
        ELSE IF Shr(b0, 1) = \b0010110 THEN "SubImmediateToAccumulator"
        ELSE IF Shr(b0, 2) = \b001110 THEN "CmpRegisterOrMemoryAndRegister"
        ELSE IF Shr(b0, 1) = \b0011110 THEN "CmpImmediateWithAccumulator"
        ELSE "None"

(***************************************************************************)
(* parse_register_or_memory_to_or_from_register                            *)
(***************************************************************************)
\* The match on mod that computes rm, from the cursor c just past the
\* mod/rm byte.
RegisterOrMemoryRm(bytes, c, mod, rm_bits, w_bit, profile) ==
    IF mod = 0 THEN
        IF rm_bits # 6 THEN RmOk(c, RM_ADDRESS_CALCULATION_ENCODINGS[rm_bits + 1])
        ELSE IF w_bit = 0 THEN
            LET disp_lo == At(bytes, c)
            IN  IF disp_lo < 0 THEN RmPanic(c, IndexPanic)
                ELSE RmOk(c + 1, "[" \o ToString(SignExtend8(disp_lo)) \o "]")
        ELSE
            LET disp_lo == At(bytes, c)
                disp_hi == At(bytes, c + 1)
            IN  IF disp_lo < 0 \/ disp_hi < 0 THEN RmPanic(c, IndexPanic)
                ELSE RmOk(c + 2,
                          "[" \o ToString(I16FromNeBytes(disp_lo, disp_hi)) \o "]")
    ELSE IF mod = 1 THEN
        LET b == At(bytes, c)
        IN  IF b < 0 THEN RmPanic(c, IndexPanic)
            ELSE LET r == rm_address_calculation_displaced(
                              rm_bits, SignExtend8(b), profile)
                 IN  IF r.panic THEN RmPanic(c + 1, OverflowPanic)
                     ELSE RmOk(c + 1, r.text)
    ELSE IF mod = 2 THEN
        LET lo == At(bytes, c)
            hi == At(bytes, c + 1)
        IN  IF lo < 0 \/ hi < 0 THEN RmPanic(c, IndexPanic)
            ELSE LET r == rm_address_calculation_displaced(
                              rm_bits, I16FromNeBytes(lo, hi), profile)
                 IN  IF r.panic THEN RmPanic(c + 2, OverflowPanic)
                     ELSE RmOk(c + 2, r.text)
    ELSE RmOk(c, REGISTER_ENCODINGS[w_bit + 1][rm_bits + 1])

RegisterOrMemoryOperation(first_byte) ==
    IF Shr(first_byte, 2) = \b10010 THEN "mov"
    ELSE IF Shr(first_byte, 2) = \b0 THEN "add"
    ELSE IF Shr(first_byte, 2) = \b001010 THEN "sub"
    ELSE IF Shr(first_byte, 2) = \b001110 THEN "cmp"
    ELSE ""

parse_register_or_memory_to_or_from_register(bytes, c, profile) ==
    LET first_byte == At(bytes, c)
        second_byte == At(bytes, c + 1)
    IN  IF first_byte < 0 \/ second_byte < 0 THEN Panic(c, IndexPanic)
        ELSE
            LET d_bit == Shr(first_byte, 1) % 2
                w_bit == first_byte % 2
                mod == Shr(second_byte, 6)
                register_bits == Shr(second_byte, 3) % 8
                rm_bits == second_byte % 8
                register == REGISTER_ENCODINGS[w_bit + 1][register_bits + 1]
                rm == RegisterOrMemoryRm(bytes, c + 2, mod, rm_bits, w_bit, profile)
                destination == IF d_bit = 1 THEN register ELSE rm.text
                source == IF d_bit = 1 THEN rm.text ELSE register
                operation == RegisterOrMemoryOperation(first_byte)
            IN  IF rm.panic THEN Panic(rm.cursor, rm.why)
                ELSE Ok(rm.cursor, <<operation, " ", destination, ", ", source>>)

(***************************************************************************)
(* parse_immediate_to_register                                             *)
(***************************************************************************)
parse_immediate_to_register(bytes, c) ==
    LET first_byte == At(bytes, c)
        data_lo == At(bytes, c + 1)
    IN  IF first_byte < 0 \/ data_lo < 0 THEN Panic(c, IndexPanic)
        ELSE
            LET w_bit == Shr(first_byte, 3) % 2
                register_bits == first_byte % 8
            IN  IF w_bit = 1 THEN
                    LET data_hi == At(bytes, c + 2)
                    IN  IF data_hi < 0 THEN Panic(c + 2, IndexPanic)
                        ELSE Ok(c + 3,
                                <<"mov", " ", WORD_REGISTERS[register_bits + 1], ", ",
                                  ToString(U16FromNeBytes(data_lo, data_hi))>>)
                ELSE Ok(c + 2,
                        <<"mov", " ", BYTE_REGISTERS[register_bits + 1], ", ",
                          ToString(data_lo)>>)
(***************************************************************************)
(* parse_immediate_to_register_or_memory                                   *)
(***************************************************************************)
\* The match on mod that computes rm, from the cursor c just past the
\* mod/rm byte.
ImmediateRm(bytes, c, mod, rm_bits, w_bit, profile) ==
    IF mod = 0 THEN
        IF rm_bits # 6 THEN RmOk(c, RM_ADDRESS_CALCULATION_ENCODINGS[rm_bits + 1])
        ELSE IF w_bit = 0 THEN
            LET disp_lo == At(bytes, c)
            IN  IF disp_lo < 0 THEN RmPanic(c, IndexPanic)
                ELSE RmOk(c + 1, "[" \o ToString(SignExtend8(disp_lo)) \o "]")
        ELSE
            LET disp_lo == At(bytes, c)
                disp_hi == At(bytes, c + 1)
            IN  IF disp_lo < 0 \/ disp_hi < 0 THEN RmPanic(c, IndexPanic)
                ELSE RmOk(c + 2,
                          "[" \o ToString(I16FromNeBytes(disp_lo, disp_hi)) \o "]")
    ELSE IF mod = 1 THEN
        LET disp_lo == At(bytes, c)
        IN  IF disp_lo < 0 THEN RmPanic(c, IndexPanic)
            ELSE LET r == rm_address_calculation_displaced(
                              rm_bits, SignExtend8(disp_lo), profile)
                 IN  IF r.panic THEN RmPanic(c + 1, OverflowPanic)
                     ELSE RmOk(c + 1, r.text)
    ELSE IF mod = 2 THEN
        LET disp_lo == At(bytes, c)
            disp_hi == At(bytes, c + 1)
        IN  IF disp_lo < 0 \/ disp_hi < 0 THEN RmPanic(c, IndexPanic)
            ELSE LET r == rm_address_calculation_displaced(
                              rm_bits, I16FromNeBytes(disp_lo, disp_hi), profile)
                 IN  IF r.panic THEN RmPanic(c + 2, OverflowPanic)
                     ELSE RmOk(c + 2, r.text)
    ELSE IF w_bit = 1 THEN RmOk(c, WORD_REGISTERS[rm_bits + 1])
    ELSE RmOk(c, BYTE_REGISTERS[rm_bits + 1])

ImmediateOperation(first_byte, register_bits) ==
    IF Shr(first_byte, 2) = \b100010 THEN "mov"
    ELSE IF Shr(first_byte, 2) = \b100000 /\ register_bits = \b0 THEN "add"
    ELSE IF Shr(first_byte, 2) = \b100000 /\ register_bits = \b101 THEN "sub"
    ELSE IF Shr(first_byte, 2) = \b100000 /\ register_bits = \b111 THEN "cmp"
    ELSE ""

\* The test on w inverted.
SizeQualifierSwapped(w_bit) == IF w_bit = 1 THEN "byte" ELSE "word"

SizeQualifier(w_bit) == IF w_bit = 1 THEN "word" ELSE "byte"

\* Whether the immediate is read as two bytes (data_lo, data_hi) or as one.
ImmediateIsWord(operation, first_byte, w_bit) ==
    IF operation = "mov" THEN w_bit = 1
    ELSE LET s_bit == Shr(first_byte, 1) % 2 IN w_bit = 1 /\ s_bit = 0

\* The closing if-chain that formats the line.
ImmediateLine(first_byte, register_bits, size, rm, immediate) ==
    IF Shr(first_byte, 2) = \b100010
        THEN <<"mov", " ", rm, ", ", size, " ", ToString(immediate)>>
    ELSE IF Shr(first_byte, 2) = \b100000 /\ register_bits = \b0
        THEN <<"add", " ", size, " ", rm, ", ", ToString(immediate)>>
    ELSE IF Shr(first_byte, 2) = \b100000 /\ register_bits = \b101
        THEN <<"sub", " ", size, " ", rm, ", ", ToString(immediate)>>
    ELSE IF Shr(first_byte, 2) = \b100000 /\ register_bits = \b111
        THEN <<"cmp", " ", size, " ", rm, ", ", ToString(immediate)>>
    ELSE <<>>

parse_immediate_to_register_or_memory(bytes, c, profile) ==
    LET first_byte == At(bytes, c)
        second_byte == At(bytes, c + 1)
    IN  IF first_byte < 0 \/ second_byte < 0 THEN Panic(c, IndexPanic)
        ELSE
            LET w_bit == first_byte % 2
                mod == Shr(second_byte, 6) % 4
                rm_bits == second_byte % 8
                rm == ImmediateRm(bytes, c + 2, mod, rm_bits, w_bit, profile)
                register_bits == Shr(second_byte, 3) % 8
                operation == ImmediateOperation(first_byte, register_bits)
                size == SizeQualifier(w_bit)
                data_lo == At(bytes, rm.cursor)
                data_hi == At(bytes, rm.cursor + 1)
            IN  IF rm.panic THEN Panic(rm.cursor, rm.why)
                ELSE IF ImmediateIsWord(operation, first_byte, w_bit) THEN
                    IF data_lo < 0 \/ data_hi < 0 THEN Panic(rm.cursor, IndexPanic)
                    ELSE Ok(rm.cursor + 2,
                            ImmediateLine(first_byte, register_bits, size, rm.text,
                                          U16FromNeBytes(data_lo, data_hi)))
                ELSE
                    IF data_lo < 0 THEN Panic(rm.cursor, IndexPanic)
                    ELSE Ok(rm.cursor + 1,
                            ImmediateLine(first_byte, register_bits, size, rm.text,
                                          data_lo))

(***************************************************************************)
(* parse_memory_to_accumulator, parse_accumulator_to_memory                *)
(***************************************************************************)
parse_memory_to_accumulator(bytes, c) ==
    LET first_byte == At(bytes, c)
        w_bit == first_byte % 2
        addr_lo == At(bytes, c + 1)
        addr_hi == At(bytes, c + 2)
    IN  IF first_byte < 0 THEN Panic(c, IndexPanic)
        ELSE IF w_bit = 1 THEN
            IF addr_lo < 0 \/ addr_hi < 0 THEN Panic(c + 1, IndexPanic)
            ELSE Ok(c + 3,
                    <<"mov", " ", "ax", ", ",
                      "[" \o ToString(U16FromNeBytes(addr_lo, addr_hi)) \o "]">>)
        ELSE
            IF addr_lo < 0 THEN Panic(c + 1, IndexPanic)
            ELSE Ok(c + 2, <<"mov", " ", "al", ", ", "[" \o ToString(addr_lo) \o "]">>)

parse_accumulator_to_memory(bytes, c) ==
    LET first_byte == At(bytes, c)
        w_bit == first_byte % 2
        addr_lo == At(bytes, c + 1)
        addr_hi == At(bytes, c + 2)
    IN  IF first_byte < 0 THEN Panic(c, IndexPanic)
        ELSE IF w_bit = 1 THEN
            IF addr_lo < 0 \/ addr_hi < 0 THEN Panic(c + 1, IndexPanic)
            ELSE Ok(c + 3,
                    <<"mov", " ",
                      "[" \o ToString(U16FromNeBytes(addr_lo, addr_hi)) \o "]",
                      ", ", "ax">>)
        ELSE
            IF addr_lo < 0 THEN Panic(c + 1, IndexPanic)
            ELSE Ok(c + 2, <<"mov", " ", "[" \o ToString(addr_lo) \o "]", ", ", "al">>)

(***************************************************************************)
(* parse_immediate_to_accumulator                                          *)
(***************************************************************************)
AccumulatorOperation(first_byte) ==
    IF Shr(first_byte, 1) = \b0010110 THEN "sub"
    ELSE IF Shr(first_byte, 1) = \b0000010 THEN "add"
    ELSE IF Shr(first_byte, 1) = \b0011110 THEN "cmp"
    ELSE ""

parse_immediate_to_accumulator(bytes, c) ==
    LET first_byte == At(bytes, c)
        w_bit == first_byte % 2
        operation == AccumulatorOperation(first_byte)
        lo == At(bytes, c + 1)
        hi == At(bytes, c + 2)
    IN  IF first_byte < 0 THEN Panic(c, IndexPanic)
        ELSE IF w_bit = 1 THEN
            IF lo < 0 \/ hi < 0 THEN Panic(c + 1, IndexPanic)
            ELSE Ok(c + 3,
                    <<operation, " ", "ax", ", ", ToString(U16FromNeBytes(lo, hi))>>)
        ELSE
            IF lo < 0 THEN Panic(c + 1, IndexPanic)
            ELSE Ok(c + 2, <<operation, " ", "al", ", ", ToString(AsI8(lo))>>)

(***************************************************************************)
(* parse_bin                                                               *)
(***************************************************************************)
Header == <<"bits 16\n\n">>
Newline == <<"\n">>

\* What a panic reports: its message and the rendered arguments of the
\* message's placeholders, each a sequence of digits.
NoReport == [msg |-> "", args |-> <<>>]

\* The formats parse_bin dispatches to each decoder.
RegisterOrMemoryOps ==
    { "MovRegisterOrMemoryToOrFromRegister",
      "AddRegisterOrMemoryWithRegisterToEither",
      "SubRegisterOrMemoryWithRegisterToEither",
      "CmpRegisterOrMemoryAndRegister" }
ImmediateToRegisterOrMemoryOps ==
    { "MovImmediateToRegisterOrMemory", "AddImmediateToRegisterOrMemory",
      "SubImmediateToRegisterOrMemory", "CmpImmediateWithRegisterOrMemory" }
ImmediateToAccumulatorOps ==
    { "AddImmediateToAccumulator", "SubImmediateToAccumulator",
      "CmpImmediateWithAccumulator" }
UnimplementedOps ==
    { "MovRegisterOrMemoryToSegmentRegister",
      "MovSegmentRegisterToRegisterOrMemory" }

Init ==
    /\ \E n \in 0..MaxLen : bin \in Buffers(n)
    /\ cursor = 0
    /\ asm = <<Header>>
    /\ status = "running"
    /\ ret = <<>>
    /\ report = NoReport
    /\ last = [start |-> 0, op |-> "None"]

\* The loop left as soon as fewer than two bytes remain.
LoopCondTwoBytes(c, bytes) == c + 1 < Len(bytes)

\* while cursor < bin.len()
LoopCond(c, bytes) == c < Len(bytes)

\* The op classified at the cursor; "None" when as_opcode_enum matches nothing.
\* Defined only where both bytes can be read.
OpAt(bytes, c) == as_opcode_enum(<<At(bytes, c), At(bytes, c + 1)>>)

\* The loop iteration has read its two bytes and classified them as one of ops.
Classified(ops) ==
    /\ status = "running"
    /\ LoopCond(cursor, bin)
    /\ At(bin, cursor + 1) >= 0
    /\ OpAt(bin, cursor) \in ops

\* asm.push_str("\n"); asm.push_str(&decoder(&bin, &mut cursor)), r being what
\* the decoder did: the line is pushed unless the decoder panicked.
Dispatch(r) ==
    /\ cursor' = r.cursor
    /\ last' = [start |-> cursor, op |-> OpAt(bin, cursor)]
    /\ IF r.panic
       THEN /\ status' = "aborted"
            /\ asm' = Append(asm, Newline)
            /\ report' = [msg |-> r.why, args |-> <<>>]
       ELSE /\ status' = "running"
            /\ asm' = Append(Append(asm, Newline), r.line)
            /\ report' = report
    /\ UNCHANGED <<bin, ret>>

\* let first_two_bytes = [bin[cursor], bin[cursor + 1]] with one byte left.
FetchPanics ==
    /\ status = "running"
    /\ LoopCond(cursor, bin)
    /\ At(bin, cursor + 1) < 0
    /\ status' = "aborted"
    /\ report' = [msg |-> IndexPanic, args |-> <<>>]
    /\ last' = [start |-> cursor, op |-> "None"]
    /\ UNCHANGED <<bin, cursor, asm, ret>>

\* as_opcode_enum(..).expect(format!("Unrecognized opcode. {:0>8b}", ..))
Unrecognized ==
    /\ Classified({ "None" })
    /\ status' = "aborted"
    /\ report' = [msg |-> "Unrecognized opcode. ", args |-> <<Bin8(At(bin, cursor))>>]
    /\ last' = [start |-> cursor, op |-> "None"]
    /\ UNCHANGED <<bin, cursor, asm, ret>>

\* _ => panic!("found unimplemented op")
Unimplemented ==
    /\ Classified(UnimplementedOps)
    /\ status' = "aborted"
    /\ report' = [msg |-> "found unimplemented op", args |-> <<>>]
    /\ last' = [start |-> cursor, op |-> OpAt(bin, cursor)]
    /\ UNCHANGED <<bin, cursor, asm, ret>>

RegisterOrMemoryToOrFromRegister ==
    /\ Classified(RegisterOrMemoryOps)
    /\ \E profile \in Profiles :
         Dispatch(parse_register_or_memory_to_or_from_register(bin, cursor, profile))

ImmediateToRegister ==
    /\ Classified({ "MovImmediateToRegister" })
    /\ Dispatch(parse_immediate_to_register(bin, cursor))

ImmediateToRegisterOrMemory ==
    /\ Classified(ImmediateToRegisterOrMemoryOps)
    /\ \E profile \in Profiles :
         Dispatch(parse_immediate_to_register_or_memory(bin, cursor, profile))

MemoryToAccumulator ==
    /\ Classified({ "MovMemoryToAccumulator" })
    /\ Dispatch(parse_memory_to_accumulator(bin, cursor))

AccumulatorToMemory ==
    /\ Classified({ "MovAccumulatorToMemory" })
    /\ Dispatch(parse_accumulator_to_memory(bin, cursor))

ImmediateToAccumulator ==
    /\ Classified(ImmediateToAccumulatorOps)
    /\ Dispatch(parse_immediate_to_accumulator(bin, cursor))

\* The loop ends and parse_bin returns asm.
Return ==
    /\ status = "running"
    /\ ~LoopCond(cursor, bin)
    /\ status' = "done"
    /\ ret' = <<asm>>
    /\ UNCHANGED <<bin, cursor, asm, report, last>>

Next ==
    \/ FetchPanics
    \/ Unrecognized
    \/ Unimplemented
    \/ RegisterOrMemoryToOrFromRegister
    \/ ImmediateToRegister
    \/ ImmediateToRegisterOrMemory
    \/ MemoryToAccumulator
    \/ AccumulatorToMemory
    \/ ImmediateToAccumulator
    \/ Return

Spec == Init /\ [][Next]_vars

\* The string a line's pieces make up.
RECURSIVE Text(_)
Text(line) == IF line = <<>> THEN "" ELSE Head(line) \o Text(Tail(line))

(***************************************************************************)
(* Vocabulary of the properties: the fields of the instruction the last    *)
(* loop iteration started on, read from the buffer.                        *)
(***************************************************************************)
\* The last iteration dispatched to a decoder and the decoder returned.
Stepped == last.op # "None" /\ status # "aborted"

\* The k-th byte (k = 1, 2, ...) of the instruction the last iteration started on.
B(k) == bin[last.start + k]
Remaining == Len(bin) - last.start
LastLine == asm[Len(asm)]

ModOf(b) == b \div 64
RegOf(b) == (b \div 8) % 8
RmOf(b) == b % 8
InGroup80(b) == b \in \h80..\h83

MovOps ==
    { "MovRegisterOrMemoryToOrFromRegister", "MovImmediateToRegisterOrMemory",
      "MovImmediateToRegister", "MovMemoryToAccumulator", "MovAccumulatorToMemory" }
AddOps ==
    { "AddRegisterOrMemoryWithRegisterToEither", "AddImmediateToRegisterOrMemory",
      "AddImmediateToAccumulator" }
SubOps ==
    { "SubRegisterOrMemoryWithRegisterToEither", "SubImmediateToRegisterOrMemory",
      "SubImmediateToAccumulator" }
CmpOps ==
    { "CmpRegisterOrMemoryAndRegister", "CmpImmediateWithRegisterOrMemory",
      "CmpImmediateWithAccumulator" }

MnemonicOf(op) ==
    IF op \in MovOps THEN "mov" ELSE IF op \in AddOps THEN "add"
    ELSE IF op \in SubOps THEN "sub" ELSE "cmp"

\* The displacement / address bytes the addressing mode of a mod/rm byte takes.
ResolverBytes(modrm) ==
    IF ModOf(modrm) = 1 THEN 1
    ELSE IF ModOf(modrm) = 2 THEN 2
    ELSE IF ModOf(modrm) = 0 /\ RmOf(modrm) = 6 THEN 2
    ELSE 0

\* The immediate bytes of the immediate-to-register/memory format.
ImmediateBytes(b0) ==
    IF b0 \in { \hC6, \hC7 } THEN (IF b0 % 2 = 1 THEN 2 ELSE 1)
    ELSE IF b0 % 2 = 1 /\ (b0 \div 2) % 2 = 0 THEN 2 ELSE 1

\* Two's-complement readings.
Signed8(b) == IF b >= 128 THEN b - 256 ELSE b
Signed16(lo, hi) == IF hi >= 128 THEN lo + 256 * hi - 65536 ELSE lo + 256 * hi
Magnitude(d) == IF d < 0 THEN 0 - d ELSE d

DisplacedBase(rm) ==
    <<"[bx + si ", "[bx + di ", "[bp + si ", "[bp + di ",
      "[si ", "[di ", "[bp ", "[bx ">>[rm + 1]

(***************************************************************************)
(* C1.  Every line a decoder appends starts with the mnemonic of the       *)
(* operation as_opcode_enum classified: mov for the Mov formats, add for   *)
(* Add, sub for Sub, cmp for Cmp; never an empty or different mnemonic.    *)
(***************************************************************************)
C1_LineStartsWithMnemonic ==
    Stepped => /\ LastLine # <<>>
               /\ LastLine[1] = MnemonicOf(last.op)

(***************************************************************************)
(* C2.  A leading byte that matches no format aborts the pass, nothing is  *)
(* returned, no byte is skipped, and the report names the byte's 8-bit     *)
(* binary pattern and its offset.                                          *)
(***************************************************************************)
UnknownLead(b) == as_opcode_enum(<<b, 0>>) = "None"

RECURSIVE Decimal(_)
Decimal(n) == IF n < 10 THEN <<n>> ELSE Append(Decimal(n \div 10), n % 10)

RECURSIVE BitsValue(_)
BitsValue(bits) ==
    IF bits = <<>> THEN 0
    ELSE 2 * BitsValue(SubSeq(bits, 1, Len(bits) - 1)) + bits[Len(bits)]

NamesPattern(r, b) ==
    \E i \in 1..Len(r.args) :
        /\ Len(r.args[i]) = 8
        /\ \A k \in 1..8 : r.args[i][k] \in {0, 1}
        /\ BitsValue(r.args[i]) = b

NamesOffset(r, c) == \E i \in 1..Len(r.args) : r.args[i] = Decimal(c)

C3_UnhandledRegFailsLoudly ==
    (/\ last.op # "None"
     /\ InGroup80(B(1))
     /\ RegOf(B(2)) \notin {0, 5, 7})
    => /\ status = "aborted"
       /\ ret = <<>>
       /\ cursor = last.start
       /\ last.op \notin (AddOps \cup SubOps \cup CmpOps)

(***************************************************************************)
(* C4.  When fewer bytes remain than the matched format requires the pass  *)
(* aborts: the cursor never passes the end of the buffer, and a listing is *)
(* returned only when every byte was consumed by completely decoded        *)
(* instructions.                                                           *)
(***************************************************************************)
\* The bytes the format matched at the last iteration requires.
Required ==
    IF last.op \in RegisterOrMemoryOps THEN 2 + ResolverBytes(B(2))
    ELSE IF last.op \in ImmediateToRegisterOrMemoryOps
        THEN 2 + ResolverBytes(B(2)) + ImmediateBytes(B(1))
    ELSE IF last.op = "MovImmediateToRegister"
        THEN (IF (B(1) \div 8) % 2 = 1 THEN 3 ELSE 2)
    ELSE IF B(1) % 2 = 1 THEN 3 ELSE 2

C4_TruncatedStreamAborts ==
    /\ cursor <= Len(bin)
    /\ status = "aborted" => ret = <<>>
    /\ ret # <<>> => (status = "done" /\ cursor = Len(bin))
    /\ Stepped => Required <= Remaining

(***************************************************************************)
(* C5.  In a line of the immediate-to-register/memory decoder the size     *)
(* qualifier "byte"/"word" appears if and only if the destination is a     *)
(* memory operand (mod # 3).                                               *)
(***************************************************************************)
QualifierCount(line) == Cardinality({ i \in 1..Len(line) : line[i] \in {"byte", "word"} })

\* C5 as stated, over the lines that carry a mnemonic.
C5_QualifierIffMemory ==
    (/\ Stepped
     /\ last.op \in ImmediateToRegisterOrMemoryOps
     /\ LastLine # <<>>)
    => (QualifierCount(LastLine) > 0 <=> ModOf(B(2)) # 3)

\* C5 as amended: every add/sub/cmp line of the decoder carries the qualifier
\* right after the mnemonic, "word" when w = 1 and "byte" when w = 0, for a
\* register destination (mod = 3) as for a memory destination.
C5_QualifierAlways ==
    (/\ Stepped
     /\ InGroup80(B(1))
     /\ RegOf(B(2)) \in {0, 5, 7})
    => /\ Len(LastLine) = 7
       /\ LastLine[1] = MnemonicOf(last.op)
       /\ LastLine[3] = (IF B(1) % 2 = 1 THEN "word" ELSE "byte")
       /\ QualifierCount(LastLine) = 1

\* 83 fe 01: a register destination with the qualifier.
C5_Witness ==
    /\ Stepped
    /\ InGroup80(B(1))
    /\ ModOf(B(2)) = 3
    /\ Text(LastLine) = "cmp word si, 1"

(***************************************************************************)
(* C6.  Immediate-to-accumulator (04/05 add, 2c/2d sub, 3c/3d cmp): with   *)
(* w = 0 the line is "<op> al, <n>", n the immediate byte as a two's       *)
(* complement value in -128..127, and 2 bytes are consumed; with w = 1 it  *)
(* is "<op> ax, <n>", n the unsigned little-endian 16-bit immediate, and 3 *)
(* bytes are consumed; the leading bit pattern alone selects the mnemonic. *)
(***************************************************************************)
AccumulatorMnemonic(b0) ==
    IF b0 \in { \h04, \h05 } THEN "add"
    ELSE IF b0 \in { \h2C, \h2D } THEN "sub" ELSE "cmp"

AccumulatorLeads == { \h04, \h05, \h2C, \h2D, \h3C, \h3D }

C6_ImmediateToAccumulator ==
    (/\ last.op # "None"
     /\ B(1) \in AccumulatorLeads)
    => IF B(1) % 2 = 0
       THEN /\ status # "aborted"
            /\ cursor = last.start + 2
            /\ \E n \in (0 - 128)..127 :
                 /\ (n - B(2)) % 256 = 0
                 /\ LastLine = <<AccumulatorMnemonic(B(1)), " ", "al", ", ", ToString(n)>>
       ELSE IF Remaining >= 3
       THEN /\ status # "aborted"
            /\ cursor = last.start + 3
            /\ LastLine = <<AccumulatorMnemonic(B(1)), " ", "ax", ", ",
                            ToString(B(2) + 256 * B(3))>>
       ELSE status = "aborted" /\ ret = <<>>

\* 04 e2: add al, -30.
C6_Witness ==
    /\ Stepped
    /\ B(1) = \h04 /\ B(2) = \hE2
    /\ cursor = last.start + 2
    /\ Text(LastLine) = "add al, -30"

(***************************************************************************)
(* C7.  With mod = 0 and rm = 6, in both decoders that take a mod/rm byte  *)
(* and for both values of w, exactly 2 address bytes follow the mod/rm     *)
(* byte and the operand is the direct address "[<16-bit value>]", never    *)
(* "[bp]".                                                                 *)
(***************************************************************************)
\* The piece of the last line that renders the r/m operand.
RmPiece ==
    IF last.op \in RegisterOrMemoryOps
    THEN (IF (B(1) \div 2) % 2 = 1 THEN LastLine[5] ELSE LastLine[3])
    ELSE LastLine[5]

DirectAddressTexts(lo, hi) ==
    { "[" \o ToString(lo + 256 * hi) \o "]",
      "[" \o ToString(Signed16(lo, hi)) \o "]" }

C7_DirectAddress ==
    (/\ Stepped
     /\ last.op \in RegisterOrMemoryOps \cup ImmediateToRegisterOrMemoryOps
     /\ ModOf(B(2)) = 0 /\ RmOf(B(2)) = 6)
    => /\ Remaining >= 4
       /\ IF last.op \in RegisterOrMemoryOps
          THEN cursor = last.start + 4
          ELSE cursor \in { last.start + 5, last.start + 6 }
       /\ LastLine # <<>> => RmPiece \in DirectAddressTexts(B(3), B(4))

(***************************************************************************)
(* C8.  For mod = 1 and mod = 2, with d the displacement as a signed       *)
(* 16-bit value, the operand shows "+" when d >= 0 (d = 0 and d = 1        *)
(* included) and "-" when d < 0, followed by |d|; a mod = 1 byte b with    *)
(* bit 7 set shows "-" and 256 - b, and d = -32768 shows 32768.            *)
(***************************************************************************)
LastDisplacement ==
    IF ModOf(B(2)) = 1 THEN Signed8(B(3)) ELSE Signed16(B(3), B(4))

C8_DisplacementSign ==
    (/\ last.op \in RegisterOrMemoryOps \cup ImmediateToRegisterOrMemoryOps
     /\ ModOf(B(2)) \in {1, 2}
     /\ Remaining >= Required)
    => /\ status # "aborted"
       /\ LastLine # <<>> =>
            RmPiece = DisplacedBase(RmOf(B(2)))
                        \o (IF LastDisplacement >= 0 THEN "+" ELSE "-")
                        \o " " \o ToString(Magnitude(LastDisplacement)) \o "]"

(***************************************************************************)
(* C9.  Every decode step of the immediate-to-register/memory format       *)
(* advances the cursor by 2 + resolver bytes + immediate bytes, the        *)
(* immediate being 2 bytes for mov iff w = 1 and for add/sub/cmp iff w = 1 *)
(* and s = 0, and 1 byte otherwise.                                        *)
(***************************************************************************)
C9_ImmediateSchedule ==
    (/\ Stepped
     /\ last.op \in ImmediateToRegisterOrMemoryOps)
    => cursor = last.start + 2 + ResolverBytes(B(2)) + ImmediateBytes(B(1))

(***************************************************************************)
(* C10.  The decode loop terminates: an iteration aborts the pass or       *)
(* strictly increases the cursor, 0 <= cursor <= length throughout, and    *)
(* the pass is done only with cursor = length.  Termination is stated by   *)
(* its variant: while running some step is always possible, every step     *)
(* taken while running aborts, returns at cursor = length or increases the *)
(* cursor, which never passes length, and nothing follows the end.         *)
(***************************************************************************)
C10_LoopTerminates ==
    /\ [](0 <= cursor /\ cursor <= Len(bin))
    /\ [](status = "done" => (cursor = Len(bin) /\ ret = <<asm>>))
    /\ [](status = "running" => ENABLED Next)
    /\ [][ /\ status = "running" =>
              \/ status' = "aborted"
              \/ status' = "running" /\ cursor' > cursor
              \/ status' = "done" /\ cursor' = cursor /\ cursor = Len(bin)
           /\ status # "running" => status' = status ]_vars

\* Two instructions decoded and the listing returned at the end of the buffer.
C10_Witness ==
    /\ status = "done"
    /\ Len(bin) >= 4 /\ cursor = Len(bin)
    /\ last.start > 0
    /\ Len(asm) = 5
====
